---- MODULE Spec2Model ----
(***************************************************************************)
(* Client-side simulation core of the agar-style game: the Player class    *)
(* (growth, collision predicates, movement) and the game loop that drives  *)
(* it against the network collaborator.                                    *)
(*                                                                         *)
(* Numbers of the program are IEEE doubles.  They are modelled as          *)
(* fixed-point integers holding Scale units per world unit; a product of   *)
(* two such numbers is kept at Scale*Scale units (the double holds it      *)
(* exactly at these magnitudes) and Sqrt2 takes it back to Scale units.    *)
(***************************************************************************)
EXTENDS Integers, Sequences, FiniteSets

\* ------------------------------------------------------------------------
\* Bounds of the model
\* ------------------------------------------------------------------------
MaxTicks == 2
MaxOps == 3
MaxFoods == 1
MaxPlayers == 1

\* ------------------------------------------------------------------------
\* Fixed-point arithmetic
\* ------------------------------------------------------------------------
Scale == 10 * 10

Fix(n) == n * Scale

Abs(a) == IF a < 0 THEN -a ELSE a

Min(a, b) == IF a < b THEN a ELSE b

Max(a, b) == IF a > b THEN a ELSE b

\* Quotient rounded toward zero, as the sign-symmetric float division is.
Quot(a, b) == IF (a < 0) = (b < 0) THEN Abs(a) \div Abs(b) ELSE -(Abs(a) \div Abs(b))

RECURSIVE SqrtBisect(_, _, _)
SqrtBisect(n, lo, hi) ==
    IF hi - lo <= 1 THEN lo
    ELSE LET mid == (lo + hi) \div 2
         IN IF mid * mid <= n THEN SqrtBisect(n, mid, hi) ELSE SqrtBisect(n, lo, mid)

\* Math.sqrt of a quantity held at Scale*Scale units, result in Scale units.
Sqrt2(n) == SqrtBisect(n, 0, Min(n, 46340) + 1)

\* Math.floor of a fixed-point number, in whole units.
Floor(v) == v \div Scale

\* ------------------------------------------------------------------------
\* Program constants
\* ------------------------------------------------------------------------
WORLD_SIZE == [width |-> Fix(10000), height |-> Fix(10000)]

SPAWN_RADIUS == Fix(30)

FOOD_RADIUS == Fix(5)

velocityMagnitude == 10

DEAD_ZONE == Fix(3)

\* The multiplier mistyped as 0.998.
BonusBelowOne(v) == (v * 998) \div 1000

\* The growth multiplier 1.002 applied to a fixed-point number.
Bonus(v) == (v * 1002) \div 1000

NoId == 0

\* ------------------------------------------------------------------------
\* Player methods (src/src/player.ts)
\* ------------------------------------------------------------------------
\* Graphics.destroy(): sets the destroyed flag; a second call changes nothing.
Destroy(e) == [e EXCEPT !.destroyed = TRUE]

DistanceSquared(p, q) == (q.x - p.x) * (q.x - p.x) + (q.y - p.y) * (q.y - p.y)

\* canEatFood without the early return on destroyed.
CanEatFoodNoFlag(p, r, food) == DistanceSquared(p, food.pos) <= r * r

CanEatFood(p, r, food) ==
    IF food.destroyed THEN FALSE
    ELSE DistanceSquared(p, food.pos) <= r * r

\* canEatBot without the early return on destroyed.
CanEatBotNoFlag(p, r, bot) == DistanceSquared(p, bot.pos) <= r * r

CanEatBot(p, r, bot) ==
    IF bot.destroyed THEN FALSE
    ELSE DistanceSquared(p, bot.pos) <= r * r

\* canEatPlayer is called by the game loop but is not defined in player.ts:
\* it is the collision predicate of spec section 4.1.
CanEatPlayer(p, r, other) ==
    IF other.destroyed THEN FALSE
    ELSE DistanceSquared(p, other.pos) <= r * r

\* eatPlayer without the call of playerEaten.destroy().
EatPlayerKeepsTarget(r, playerEaten) ==
    [radius |-> Sqrt2(r * r + playerEaten.radius * playerEaten.radius),
     target |-> playerEaten]

\* Each growth operation yields the consumer's new radius and the target.
EatPlayer(r, playerEaten) ==
    [radius |-> Sqrt2(r * r + playerEaten.radius * playerEaten.radius),
     target |-> Destroy(playerEaten)]

EatFood(r, foodEaten) ==
    [radius |-> Bonus(Sqrt2(r * r + FOOD_RADIUS * FOOD_RADIUS)),
     target |-> Destroy(foodEaten)]

EatBot(r, botEaten) ==
    [radius |-> Bonus(Sqrt2(r * r + botEaten.radius * botEaten.radius)),
     target |-> Destroy(botEaten)]

CalculateMaxDistance(screen) ==
    Sqrt2((screen.width \div 2) * (screen.width \div 2)
          + (screen.height \div 2) * (screen.height \div 2))

PointerDelta(screen, x, y) ==
    LET dx == x - screen.width \div 2
        dy == y - screen.height \div 2
    IN Sqrt2(dx * dx + dy * dy)

Clamp(v, hi) == Max(0, Min(v, hi))

\* moveTowards without the bound checking.
MoveTowardsNoClamp(p, r, bounds, screen, x, y) ==
    LET dx == x - screen.width \div 2
        dy == y - screen.height \div 2
        delta == Sqrt2(dx * dx + dy * dy)
        maxDistance == CalculateMaxDistance(screen)
        normalizedDistance == Min(Quot(delta * Scale, maxDistance) * 2, Scale)
        velocity == Quot(normalizedDistance * velocityMagnitude * Scale,
                         Sqrt2(Quot(r, 20) * Scale))
    IN IF delta > DEAD_ZONE
       THEN [x |-> p.x + Quot(Quot(dx * Scale, delta) * velocity, Scale),
             y |-> p.y + Quot(Quot(dy * Scale, delta) * velocity, Scale)]
       ELSE p

\* moveTowards with the dead-zone test written delta >= 3.
MoveTowardsFromRim(p, r, bounds, screen, x, y) ==
    LET dx == x - screen.width \div 2
        dy == y - screen.height \div 2
        delta == Sqrt2(dx * dx + dy * dy)
        maxDistance == CalculateMaxDistance(screen)
        normalizedDistance == Min(Quot(delta * Scale, maxDistance) * 2, Scale)
        velocity == Quot(normalizedDistance * velocityMagnitude * Scale,
                         Sqrt2(Quot(r, 20) * Scale))
    IN IF delta >= DEAD_ZONE
       THEN [x |-> Clamp(p.x + Quot(Quot(dx * Scale, delta) * velocity, Scale), bounds.width),
             y |-> Clamp(p.y + Quot(Quot(dy * Scale, delta) * velocity, Scale), bounds.height)]
       ELSE p

MoveTowards(p, r, bounds, screen, x, y) ==
    LET dx == x - screen.width \div 2
        dy == y - screen.height \div 2
        delta == Sqrt2(dx * dx + dy * dy)
        maxDistance == CalculateMaxDistance(screen)
        normalizedDistance == Min(Quot(delta * Scale, maxDistance) * 2, Scale)
        velocity == Quot(normalizedDistance * velocityMagnitude * Scale,
                         Sqrt2(Quot(r, 20) * Scale))
    IN IF delta > DEAD_ZONE
       THEN [x |-> Clamp(p.x + Quot(Quot(dx * Scale, delta) * velocity, Scale), bounds.width),
             y |-> Clamp(p.y + Quot(Quot(dy * Scale, delta) * velocity, Scale), bounds.height)]
       ELSE p

\* ------------------------------------------------------------------------
\* Camera (src/unnamed/part_000, game loop)
\* ------------------------------------------------------------------------
LN2 == (693 * Scale) \div 1000

ZOOM_MIN == Scale \div 10

\* Math.log of a positive fixed-point number: halving or doubling into
\* [1, 2), then the series 2(z + z^3/3) with z = (m - 1)/(m + 1).
RECURSIVE Ln(_)
Ln(v) ==
    IF v >= 2 * Scale THEN LN2 + Ln(v \div 2)
    ELSE IF v < Scale THEN Ln(v * 2) - LN2
    ELSE LET z == Quot((v - Scale) * Scale, v + Scale)
         IN 2 * (z + Quot(z * z * z, 3 * Scale * Scale))

\* The target zoom without the Math.max(0.1, ...) floor.
ZoomNoFloor(r) ==
    IF r < Fix(80)
    THEN IF r = 0 THEN 0
         ELSE IF Ln(r) = 0 THEN Scale
         ELSE Min(Scale, Quot(Fix(50) * Scale, Ln(r)))
    ELSE IF r = Fix(80) THEN Scale
         ELSE Min(Scale, Quot(Fix(100) * Scale, r - Fix(80)))

\* The target zoom.  A division by zero yields Infinity, which Math.min
\* cuts to 1; Math.log(0) is -Infinity and 50 / -Infinity is -0, which
\* Math.max raises to 0.1.
Zoom(r) ==
    IF r < Fix(80)
    THEN IF r = 0 THEN ZOOM_MIN
         ELSE IF Ln(r) = 0 THEN Scale
         ELSE Max(ZOOM_MIN, Min(Scale, Quot(Fix(50) * Scale, Ln(r))))
    ELSE IF r = Fix(80) THEN Scale
         ELSE Max(ZOOM_MIN, Min(Scale, Quot(Fix(100) * Scale, r - Fix(80))))

\* lerp(start, end, 0.05)
Lerp(start, end) == Quot(start * 95 + end * 5, 100)

CameraUpdate(scale, position, r, p, screen) ==
    LET zoom == Zoom(r)
        sc == [x |-> Lerp(scale.x, zoom), y |-> Lerp(scale.y, zoom)]
    IN [scale |-> sc,
        position |->
            [x |-> Lerp(position.x, screen.width \div 2 - Quot(p.x * sc.x, Scale)),
             y |-> Lerp(position.y, screen.height \div 2 - Quot(p.y * sc.y, Scale))]]

\* ------------------------------------------------------------------------
\* Entities and messages
\* ------------------------------------------------------------------------
\* eaten and intents are history fields: how many growth operations were
\* applied to the entity and how many intents were emitted for it.
Food(x, y, d) ==
    [pos |-> [x |-> x, y |-> y], destroyed |-> d, eaten |-> 0, intents |-> 0]

Mobile(x, y, r, id, d) ==
    [pos |-> [x |-> x, y |-> y], radius |-> r, id |-> id, destroyed |-> d,
     eaten |-> 0, intents |-> 0]

\* after is a history field: the sender's radius once the growth the
\* intent reports has been applied.
Msg(type, x, y, id, r, after) ==
    [type |-> type, x |-> x, y |-> y, id |-> id, radius |-> r, after |-> after]

Consumed(e) == [e EXCEPT !.eaten = @ + 1]

Reported(e) == [e EXCEPT !.intents = @ + 1]

\* ------------------------------------------------------------------------
\* Game loop (src/unnamed/part_000, app.ticker.add callback)
\* ------------------------------------------------------------------------
\* A scan state: the player's radius, the collections, the messages sent,
\* and (history) the indices the two forEach loops have visited.
SeenFood(st, i) == [st EXCEPT !.seenFoods = Append(@, i)]

SeenPlayer(st, i) == [st EXCEPT !.seenPlayers = Append(@, i)]

\* The foods loop ending one element early.
RECURSIVE ScanFoodsStopsEarly(_, _, _)
ScanFoodsStopsEarly(p, st, i) ==
    IF i >= Len(st.foods) THEN st
    ELSE LET f == st.foods[i]
         IN IF CanEatFood(p, st.radius, f)
            THEN LET e == EatFood(st.radius, f)
                 IN ScanFoodsStopsEarly(p,
                        [SeenFood(st, i) EXCEPT
                                   !.radius = e.radius,
                                   !.foods[i] = Reported(Consumed(e.target)),
                                   !.out = Append(@, Msg("eatFood", Floor(f.pos.x),
                                                         Floor(f.pos.y), NoId,
                                                         Floor(e.radius), e.radius))],
                        i + 1)
            ELSE ScanFoodsStopsEarly(p, SeenFood(st, i), i + 1)

\* The foods loop with sendEatFood outside the if (player.canEatFood(f)).
RECURSIVE ScanFoodsReportsAll(_, _, _)
ScanFoodsReportsAll(p, st, i) ==
    IF i > Len(st.foods) THEN st
    ELSE LET f == st.foods[i]
         IN IF CanEatFood(p, st.radius, f)
            THEN LET e == EatFood(st.radius, f)
                 IN ScanFoodsReportsAll(p,
                        [SeenFood(st, i) EXCEPT
                                   !.radius = e.radius,
                                   !.foods[i] = Reported(Consumed(e.target)),
                                   !.out = Append(@, Msg("eatFood", Floor(f.pos.x),
                                                         Floor(f.pos.y), NoId,
                                                         Floor(e.radius), e.radius))],
                        i + 1)
            ELSE ScanFoodsReportsAll(p,
                        [SeenFood(st, i) EXCEPT
                                   !.out = Append(@, Msg("eatFood", Floor(f.pos.x),
                                                         Floor(f.pos.y), NoId,
                                                         Floor(st.radius), st.radius))],
                        i + 1)

RECURSIVE ScanFoods(_, _, _)
ScanFoods(p, st, i) ==
    IF i > Len(st.foods) THEN st
    ELSE LET f == st.foods[i]
         IN IF CanEatFood(p, st.radius, f)
            THEN LET e == EatFood(st.radius, f)
                 IN ScanFoods(p,
                        [SeenFood(st, i) EXCEPT
                                   !.radius = e.radius,
                                   !.foods[i] = Reported(Consumed(e.target)),
                                   !.out = Append(@, Msg("eatFood", Floor(f.pos.x),
                                                         Floor(f.pos.y), NoId,
                                                         Floor(e.radius), e.radius))],
                        i + 1)
            ELSE ScanFoods(p, SeenFood(st, i), i + 1)

\* The players loop with eatPlayer outside the if (p.id !== undefined).
RECURSIVE ScanPlayersGrowsAlways(_, _, _)
ScanPlayersGrowsAlways(p, st, i) ==
    IF i > Len(st.players) THEN st
    ELSE LET o == st.players[i]
         IN IF CanEatPlayer(p, st.radius, o)
            THEN LET e == EatPlayer(st.radius, o)
                 IN IF o.id # NoId
                    THEN ScanPlayersGrowsAlways(p,
                             [SeenPlayer(st, i) EXCEPT
                                        !.out = Append(@, Msg("eatPlayer", 0, 0, o.id,
                                                              st.radius, e.radius)),
                                        !.radius = e.radius,
                                        !.players[i] =
                                            Destroy(Reported(Consumed(e.target)))],
                             i + 1)
                    ELSE ScanPlayersGrowsAlways(p,
                             [SeenPlayer(st, i) EXCEPT
                                        !.radius = e.radius,
                                        !.players[i] = Destroy(Consumed(e.target))],
                             i + 1)
            ELSE ScanPlayersGrowsAlways(p, SeenPlayer(st, i), i + 1)

RECURSIVE ScanPlayers(_, _, _)
ScanPlayers(p, st, i) ==
    IF i > Len(st.players) THEN st
    ELSE LET o == st.players[i]
         IN IF CanEatPlayer(p, st.radius, o)
            THEN IF o.id # NoId
                 THEN LET e == EatPlayer(st.radius, o)
                      IN ScanPlayers(p,
                             [SeenPlayer(st, i) EXCEPT
                                        !.out = Append(@, Msg("eatPlayer", 0, 0, o.id,
                                                              st.radius, e.radius)),
                                        !.radius = e.radius,
                                        !.players[i] =
                                            Destroy(Reported(Consumed(e.target)))],
                             i + 1)
                 ELSE ScanPlayers(p, [SeenPlayer(st, i) EXCEPT
                                        !.players[i] = Destroy(o)], i + 1)
            ELSE ScanPlayers(p, SeenPlayer(st, i), i + 1)

\* The callback without the if (network.isConnected()) around the move.
GameLoopAlwaysMoves(s, screen, px, py) ==
    LET moved == MoveTowards(s.pos, s.radius, WORLD_SIZE, screen, px, py)
        out0 == <<Msg("movement", moved.x, moved.y, NoId, 0, 0)>>
        st1 == ScanFoods(moved,
                   [radius |-> s.radius, foods |-> s.foods, players |-> s.players,
                    out |-> out0, seenFoods |-> <<>>, seenPlayers |-> <<>>], 1)
        st2 == ScanPlayers(moved, st1, 1)
        cam == CameraUpdate(s.scale, s.position, st2.radius, moved, screen)
    IN [pos |-> moved, radius |-> st2.radius, foods |-> st2.foods,
        players |-> st2.players, out |-> st2.out,
        scale |-> cam.scale, position |-> cam.position,
        seenFoods |-> st2.seenFoods, seenPlayers |-> st2.seenPlayers]

\* One run of the callback on the state s with the pointer at (px, py).
GameLoop(s, screen, px, py) ==
    LET moved == IF s.connected
                 THEN MoveTowards(s.pos, s.radius, WORLD_SIZE, screen, px, py)
                 ELSE s.pos
        out0 == IF s.connected
                THEN <<Msg("movement", moved.x, moved.y, NoId, 0, 0)>>
                ELSE <<>>
        st1 == ScanFoods(moved,
                   [radius |-> s.radius, foods |-> s.foods, players |-> s.players,
                    out |-> out0, seenFoods |-> <<>>, seenPlayers |-> <<>>], 1)
        st2 == ScanPlayers(moved, st1, 1)
        cam == CameraUpdate(s.scale, s.position, st2.radius, moved, screen)
    IN [pos |-> moved, radius |-> st2.radius, foods |-> st2.foods,
        players |-> st2.players, out |-> st2.out,
        scale |-> cam.scale, position |-> cam.position,
        seenFoods |-> st2.seenFoods, seenPlayers |-> st2.seenPlayers]

\* ------------------------------------------------------------------------
\* State
\* ------------------------------------------------------------------------
VARIABLES
    pos,             \* player.pos
    radius,          \* player.radius
    foods,           \* network.foods
    players,         \* network.players
    bots,            \* Bot entities handed to canEatBot / eatBot
    connected,       \* network.isConnected()
    checkConnection, \* the 500 ms interval of connectToServer is running
    joined,          \* number of sendJoin calls
    sent,            \* messages emitted by the latest run of the game loop
    scale,           \* world.scale
    position,        \* world.position
    steps,           \* number of game loop runs / method calls so far
    last             \* the latest operation: its name, inputs and result

vars == <<pos, radius, foods, players, bots, connected, checkConnection, joined,
          sent, scale, position, steps, last>>

NoLast ==
    [op |-> "none", r1 |-> 0, r2 |-> 0, p0 |-> [x |-> 0, y |-> 0], delta |-> 0,
     wasDestroyed |-> FALSE, isDestroyed |-> FALSE, inside |-> FALSE,
     result |-> FALSE, conn |-> FALSE, killed |-> 0,
     ptr |-> [x |-> 0, y |-> 0], zoom |-> 0,
     seenFoods |-> <<>>, seenPlayers |-> <<>>]

Screens == {[width |-> Fix(20), height |-> Fix(10)]}

\* Pointer positions: the viewport center, the rim of the dead-zone, the
\* middle of the right edge and the two corners.
Pointers(screen) ==
    {[x |-> screen.width \div 2, y |-> screen.height \div 2],
     [x |-> screen.width \div 2 + DEAD_ZONE, y |-> screen.height \div 2],
     [x |-> screen.width, y |-> screen.height \div 2],
     [x |-> 0, y |-> 0],
     [x |-> screen.width, y |-> screen.height]}

\* The pointer positions of a frame: the center, the rim of the dead-zone
\* and the middle of the right edge.
TickPointers(screen) ==
    {[x |-> screen.width \div 2, y |-> screen.height \div 2],
     [x |-> screen.width \div 2 + DEAD_ZONE, y |-> screen.height \div 2],
     [x |-> screen.width, y |-> screen.height \div 2]}

NumDestroyed(es) == Cardinality({i \in 1..Len(es) : es[i].destroyed})

\* ------------------------------------------------------------------------
\* The game (src/unnamed/part_000)
\* ------------------------------------------------------------------------
SPAWN == [x |-> WORLD_SIZE.width \div 2, y |-> WORLD_SIZE.height \div 2]

\* Where the server places foods, relative to the spawn point: on the rim
\* of the spawned player's disk, and outside it within one step's reach.
FoodOffsets == {SPAWN_RADIUS, SPAWN_RADIUS + Fix(8)}

\* Remote players appear on the spawn point.
PlayerOffsets == {0}

PlayerRadii == {Fix(20)}

PlayerIds == {NoId, 1}

Init ==
    /\ pos = SPAWN
    /\ radius = SPAWN_RADIUS
    /\ foods = <<>>
    /\ players = <<>>
    /\ bots = <<>>
    /\ connected = FALSE
    /\ checkConnection = TRUE
    /\ joined = 0
    /\ sent = <<>>
    /\ scale = [x |-> Scale, y |-> Scale]
    /\ position = [x |-> 0, y |-> 0]
    /\ steps = 0
    /\ last = NoLast

\* The WebSocket opens or closes.
SocketOpen ==
    /\ ~connected
    /\ connected' = TRUE
    /\ UNCHANGED <<pos, radius, foods, players, bots, checkConnection, joined,
                   sent, scale, position, steps, last>>

SocketClose ==
    /\ connected
    /\ connected' = FALSE
    /\ UNCHANGED <<pos, radius, foods, players, bots, checkConnection, joined,
                   sent, scale, position, steps, last>>

\* A server message adds a food or a player to the collections.
ServerFood ==
    /\ connected
    /\ Len(foods) < MaxFoods
    /\ \E dx \in FoodOffsets :
           foods' = Append(foods, Food(SPAWN.x + dx, SPAWN.y, FALSE))
    /\ UNCHANGED <<pos, radius, players, bots, connected, checkConnection, joined,
                   sent, scale, position, steps, last>>

ServerPlayer ==
    /\ connected
    /\ Len(players) < MaxPlayers
    /\ \E dy \in PlayerOffsets, r \in PlayerRadii, id \in PlayerIds :
           players' = Append(players, Mobile(SPAWN.x, SPAWN.y + dy, r, id, FALSE))
    /\ UNCHANGED <<pos, radius, foods, bots, connected, checkConnection, joined,
                   sent, scale, position, steps, last>>

\* The interval callback without clearInterval(checkConnection).
PollKeepsInterval ==
    /\ checkConnection
    /\ IF ~connected
       THEN UNCHANGED <<checkConnection, joined>>
       ELSE /\ checkConnection' = checkConnection
            /\ joined' = joined + 1
    /\ UNCHANGED <<pos, radius, foods, players, bots, connected, sent, scale,
                   position, steps, last>>

\* The checkConnection interval callback of connectToServer.
Poll ==
    /\ checkConnection
    /\ IF ~connected
       THEN UNCHANGED <<checkConnection, joined>>
       ELSE /\ checkConnection' = FALSE
            /\ joined' = joined + 1
    /\ UNCHANGED <<pos, radius, foods, players, bots, connected, sent, scale,
                   position, steps, last>>

\* One frame: the ticker runs the game loop callback.
Tick ==
    /\ steps < MaxTicks
    /\ \E screen \in Screens : \E ptr \in TickPointers(screen) :
         LET g == GameLoop([pos |-> pos, radius |-> radius, foods |-> foods,
                            players |-> players, connected |-> connected,
                            scale |-> scale, position |-> position],
                           screen, ptr.x, ptr.y)
         IN /\ pos' = g.pos
            /\ radius' = g.radius
            /\ foods' = g.foods
            /\ players' = g.players
            /\ sent' = g.out
            /\ scale' = g.scale
            /\ position' = g.position
            /\ last' = [NoLast EXCEPT
                            !.op = "tick", !.r1 = radius, !.p0 = pos,
                            !.delta = PointerDelta(screen, ptr.x, ptr.y),
                            !.ptr = ptr, !.zoom = Zoom(g.radius),
                            !.seenFoods = g.seenFoods,
                            !.seenPlayers = g.seenPlayers,
                            !.conn = connected,
                            !.killed = NumDestroyed(g.foods) + NumDestroyed(g.players)
                                       - NumDestroyed(foods) - NumDestroyed(players)]
    /\ steps' = steps + 1
    /\ UNCHANGED <<bots, connected, checkConnection, joined>>

Next == SocketOpen \/ SocketClose \/ ServerFood \/ ServerPlayer \/ Poll \/ Tick

Spec == Init /\ [][Next]_vars

\* The game with its timer: setInterval(..., 500) keeps firing the
\* checkConnection callback until clearInterval, so a poll that stays able
\* to send the join is eventually run.
SpecLive == Init /\ [][Next]_vars /\ WF_vars(Poll)

\* ------------------------------------------------------------------------
\* The Player class on its own (src/src/player.ts): an object built by the
\* constructor, whose public methods are called in any order.
\* ------------------------------------------------------------------------
\* Constructor arguments x, y: the spawn point of the game, a point next to
\* each far corner of the world, and a point outside the world (the
\* constructor stores what it is given).
Spawns ==
    {SPAWN,
     [x |-> Fix(2), y |-> Fix(2)],
     [x |-> WORLD_SIZE.width - Fix(2), y |-> WORLD_SIZE.height - Fix(2)],
     [x |-> -Fix(1), y |-> WORLD_SIZE.height + Fix(1)]}

SpawnRadii == {Fix(20), SPAWN_RADIUS}

InBounds(p, bounds) ==
    /\ 0 <= p.x /\ p.x <= bounds.width
    /\ 0 <= p.y /\ p.y <= bounds.height

Inside(p, r, q) == DistanceSquared(p, q) <= r * r

\* The targets offered to the methods: on the player's center (live, and
\* already destroyed), outside its disk, and with radius 0.
InitPlayer ==
    /\ pos \in Spawns
    /\ radius \in SpawnRadii
    /\ foods = <<Food(pos.x, pos.y, FALSE),
                 Food(pos.x, pos.y, TRUE),
                 Food(pos.x + radius + Fix(8), pos.y, FALSE)>>
    /\ bots = <<Mobile(pos.x, pos.y, Fix(20), NoId, FALSE),
                Mobile(pos.x, pos.y, Fix(20), NoId, TRUE),
                Mobile(pos.x, pos.y + radius, 0, NoId, FALSE)>>
    /\ players = <<Mobile(pos.x, pos.y, Fix(20), 1, FALSE),
                   Mobile(pos.x, pos.y, Fix(20), 2, TRUE),
                   Mobile(pos.x + radius, pos.y, 0, 3, FALSE)>>
    /\ connected = FALSE
    /\ checkConnection = FALSE
    /\ joined = 0
    /\ sent = <<>>
    /\ scale = [x |-> Scale, y |-> Scale]
    /\ position = [x |-> 0, y |-> 0]
    /\ steps = 0
    /\ last = NoLast

Frame == <<connected, checkConnection, joined, sent, scale, position>>

CallMoveTowards ==
    /\ steps < MaxOps
    /\ \E screen \in Screens : \E ptr \in Pointers(screen) :
         /\ pos' = MoveTowards(pos, radius, WORLD_SIZE, screen, ptr.x, ptr.y)
         /\ last' = [NoLast EXCEPT !.op = "moveTowards", !.r1 = radius, !.p0 = pos,
                                   !.delta = PointerDelta(screen, ptr.x, ptr.y),
                                   !.ptr = ptr]
    /\ steps' = steps + 1
    /\ UNCHANGED <<radius, foods, players, bots>>
    /\ UNCHANGED Frame

CallCanEatFood ==
    /\ steps < MaxOps
    /\ \E i \in 1..Len(foods) :
         last' = [NoLast EXCEPT !.op = "canEatFood", !.r1 = radius, !.p0 = pos,
                                !.r2 = FOOD_RADIUS,
                                !.wasDestroyed = foods[i].destroyed,
                                !.isDestroyed = foods[i].destroyed,
                                !.inside = Inside(pos, radius, foods[i].pos),
                                !.result = CanEatFood(pos, radius, foods[i])]
    /\ steps' = steps + 1
    /\ UNCHANGED <<pos, radius, foods, players, bots>>
    /\ UNCHANGED Frame

CallCanEatBot ==
    /\ steps < MaxOps
    /\ \E i \in 1..Len(bots) :
         last' = [NoLast EXCEPT !.op = "canEatBot", !.r1 = radius, !.p0 = pos,
                                !.r2 = bots[i].radius,
                                !.wasDestroyed = bots[i].destroyed,
                                !.isDestroyed = bots[i].destroyed,
                                !.inside = Inside(pos, radius, bots[i].pos),
                                !.result = CanEatBot(pos, radius, bots[i])]
    /\ steps' = steps + 1
    /\ UNCHANGED <<pos, radius, foods, players, bots>>
    /\ UNCHANGED Frame

CallEatFood ==
    /\ steps < MaxOps
    /\ \E i \in 1..Len(foods) :
         LET e == EatFood(radius, foods[i])
         IN /\ radius' = e.radius
            /\ foods' = [foods EXCEPT ![i] = Consumed(e.target)]
            /\ last' = [NoLast EXCEPT !.op = "eatFood", !.r1 = radius, !.p0 = pos,
                                      !.r2 = FOOD_RADIUS,
                                      !.wasDestroyed = foods[i].destroyed,
                                      !.isDestroyed = e.target.destroyed,
                                      !.inside = Inside(pos, radius, foods[i].pos)]
    /\ steps' = steps + 1
    /\ UNCHANGED <<pos, players, bots>>
    /\ UNCHANGED Frame

CallEatBot ==
    /\ steps < MaxOps
    /\ \E i \in 1..Len(bots) :
         LET e == EatBot(radius, bots[i])
         IN /\ radius' = e.radius
            /\ bots' = [bots EXCEPT ![i] = Consumed(e.target)]
            /\ last' = [NoLast EXCEPT !.op = "eatBot", !.r1 = radius, !.p0 = pos,
                                      !.r2 = bots[i].radius,
                                      !.wasDestroyed = bots[i].destroyed,
                                      !.isDestroyed = e.target.destroyed,
                                      !.inside = Inside(pos, radius, bots[i].pos)]
    /\ steps' = steps + 1
    /\ UNCHANGED <<pos, foods, players>>
    /\ UNCHANGED Frame

CallEatPlayer ==
    /\ steps < MaxOps
    /\ \E i \in 1..Len(players) :
         LET e == EatPlayer(radius, players[i])
         IN /\ radius' = e.radius
            /\ players' = [players EXCEPT ![i] = Consumed(e.target)]
            /\ last' = [NoLast EXCEPT !.op = "eatPlayer", !.r1 = radius, !.p0 = pos,
                                      !.r2 = players[i].radius,
                                      !.wasDestroyed = players[i].destroyed,
                                      !.isDestroyed = e.target.destroyed,
                                      !.inside = Inside(pos, radius, players[i].pos)]
    /\ steps' = steps + 1
    /\ UNCHANGED <<pos, foods, bots>>
    /\ UNCHANGED Frame

NextPlayer ==
    \/ CallMoveTowards
    \/ CallCanEatFood
    \/ CallCanEatBot
    \/ CallEatFood
    \/ CallEatBot
    \/ CallEatPlayer

SpecPlayer == InitPlayer /\ [][NextPlayer]_vars

\* ------------------------------------------------------------------------
\* Properties
\* ------------------------------------------------------------------------
EatOps == {"eatFood", "eatBot", "eatPlayer"}

\* C1: for a food or bot whose destroyed flag is set, canEatFood / canEatBot
\* returns false, wherever the target lies, also inside the consumer's disk.
C1_DestroyedNeverEdible ==
    (last.op \in {"canEatFood", "canEatBot"} /\ last.wasDestroyed) => ~last.result

C1_Witness ==
    /\ last.op = "canEatBot"
    /\ last.wasDestroyed
    /\ last.inside
    /\ ~last.result

\* C2 (as stated): eatBot and eatPlayer set the radius to
\* sqrt(r1^2 + r2^2) * 1.002, and eatFood sets it to sqrt(r1^2 + FOOD_RADIUS^2)
\* with no multiplier.
C2_BonusOnlyForMovingTargets ==
    /\ last.op \in {"eatBot", "eatPlayer"}
          => radius = Bonus(Sqrt2(last.r1 * last.r1 + last.r2 * last.r2))
    /\ last.op = "eatFood"
          => radius = Sqrt2(last.r1 * last.r1 + FOOD_RADIUS * FOOD_RADIUS)

\* C3 (as stated): a run of the game loop with isConnected() false destroys
\* no entity, leaves the radius unchanged and emits no sendEatFood or
\* sendEatPlayer.
C3_NoConsumptionWhenDisconnected ==
    (last.op = "tick" /\ ~last.conn) =>
        /\ last.killed = 0
        /\ radius = last.r1
        /\ \A i \in 1..Len(sent) : sent[i].type \notin {"eatFood", "eatPlayer"}

\* C4: each food and each player is consumed at most once: a destroyed
\* entity is left as it is by every later step (no further growth from it,
\* no further intent for it), and no entity ever has more than one growth
\* operation or more than one intent.
C4_ConsumedAtMostOnce ==
    [][/\ \A i \in 1..Len(foods) : foods[i].destroyed => foods'[i] = foods[i]
       /\ \A i \in 1..Len(players) : players[i].destroyed => players'[i] = players[i]
       /\ \A i \in 1..Len(foods') : foods'[i].eaten <= 1 /\ foods'[i].intents <= 1
       /\ \A i \in 1..Len(players') :
              players'[i].eaten <= 1 /\ players'[i].intents <= 1]_vars

\* A later run of the game loop finds a consumed food inside the disk.
C4_Witness ==
    /\ last.op = "tick"
    /\ last.killed = 0
    /\ \E i \in 1..Len(foods) :
           /\ foods[i].eaten = 1
           /\ foods[i].destroyed
           /\ Inside(pos, radius, foods[i].pos)

\* C5 (as stated): after any moveTowards call, from any starting position,
\* the position lies within the world bounds.
C5_InBoundsAfterAnyMove ==
    last.op = "moveTowards" => InBounds(pos, WORLD_SIZE)

\* C5, the part the code satisfies: after a moveTowards call with finite
\* pointer coordinates that starts inside the world bounds, or whose
\* pointer offset is outside the dead-zone, the position lies within the
\* world bounds.
C5_InBoundsAfterMove ==
    (last.op = "moveTowards"
        /\ (InBounds(last.p0, WORLD_SIZE) \/ last.delta > DEAD_ZONE))
    => InBounds(pos, WORLD_SIZE)

\* The step was cut at the far edge of the world.
C5_Witness ==
    /\ last.op = "moveTowards"
    /\ last.delta > DEAD_ZONE
    /\ last.p0.x < WORLD_SIZE.width
    /\ pos.x = WORLD_SIZE.width

\* C6: a moveTowards call whose pointer offset has length delta <= 3 leaves
\* the position exactly as it was.
C6_DeadZone ==
    (last.op = "moveTowards" /\ last.delta <= DEAD_ZONE) => pos = last.p0

C6_Witness ==
    /\ last.op = "moveTowards"
    /\ last.delta = DEAD_ZONE
    /\ pos = last.p0

\* C7: the radius never decreases, and it changes only in a growth
\* operation (eatFood, eatBot, eatPlayer); moveTowards and the collision
\* predicates leave it unchanged.
C7_RadiusMonotone ==
    [][/\ radius' >= radius
       /\ radius' # radius => last'.op \in EatOps]_vars

C7_Witness ==
    /\ last.op = "eatBot"
    /\ radius > last.r1

\* C8 (as stated): the radius argument of every sendEatPlayer is the
\* sender's radius after the growth from that target has been applied.
C8_IntentCarriesResultingRadius ==
    \A i \in 1..Len(sent) :
        sent[i].type = "eatPlayer" => sent[i].radius = sent[i].after

\* C9 (as stated): a growth operation applied to an already destroyed
\* target leaves the radius unchanged and the target destroyed.
C9_EatDestroyedIsNoOp ==
    (last.op \in EatOps /\ last.wasDestroyed) =>
        /\ radius = last.r1
        /\ last.isDestroyed

ZoomRadii ==
    {0, Fix(1) \div 2, Fix(1), Fix(2), SPAWN_RADIUS, Fix(80) - 1, Fix(80),
     Fix(80) + 1, Fix(100), Fix(180), Fix(200), Fix(500), Fix(1080), Fix(2000)}

InitCamera ==
    /\ pos = SPAWN
    /\ radius \in ZoomRadii
    /\ foods = <<>>
    /\ players = <<>>
    /\ bots = <<>>
    /\ connected = FALSE
    /\ checkConnection = FALSE
    /\ joined = 0
    /\ sent = <<>>
    /\ scale = [x |-> Scale, y |-> Scale]
    /\ position = [x |-> 0, y |-> 0]
    /\ steps = 0
    /\ last = NoLast

\* The player's radius is raised between two frames.
Grow ==
    /\ \E r \in ZoomRadii : r > radius /\ radius' = r
    /\ UNCHANGED <<pos, foods, players, bots, connected, checkConnection, joined,
                   sent, scale, position, steps, last>>

\* The camera part of one frame.
CameraFrame ==
    /\ steps < MaxOps
    /\ \E screen \in Screens :
         LET cam == CameraUpdate(scale, position, radius, pos, screen)
         IN /\ scale' = cam.scale
            /\ position' = cam.position
            /\ last' = [NoLast EXCEPT !.op = "camera", !.r1 = radius, !.p0 = pos,
                                      !.zoom = Zoom(radius)]
    /\ steps' = steps + 1
    /\ UNCHANGED <<pos, radius, foods, players, bots, connected, checkConnection,
                   joined, sent>>

NextCamera == Grow \/ CameraFrame

SpecCamera == InitCamera /\ [][NextCamera]_vars

\* Two radii lie on the same piece of the zoom formula.
SamePiece(r1, r2) ==
    \/ Fix(1) < r1 /\ r1 < Fix(80) /\ Fix(1) < r2 /\ r2 < Fix(80)
    \/ r1 > Fix(80) /\ r2 > Fix(80)

\* C11: the target zoom of every frame lies in [0.1, 1], for every radius
\* >= 0 (also radius <= 1 and radius = 80), and on (1, 80) and on
\* (80, infinity) a frame with a larger radius has no larger zoom.
C11_ZoomBoundedMonotone ==
    [][last'.op = "camera" =>
         /\ ZOOM_MIN <= last'.zoom
         /\ last'.zoom <= Scale
         /\ (last.op = "camera" /\ SamePiece(last.r1, last'.r1)
                 /\ last.r1 <= last'.r1)
            => last'.zoom <= last.zoom]_vars

\* A frame of a player with radius below 1, where ln(radius) is negative.
C11_Witness ==
    /\ last.op = "camera"
    /\ last.r1 > 0
    /\ last.r1 < Fix(1)
    /\ last.zoom = ZOOM_MIN

\* ------------------------------------------------------------------------
\* moveTowards with pointer coordinates that are not finite numbers
\* (src/src/player.ts, lines 107-129, under IEEE arithmetic)
\* ------------------------------------------------------------------------
\* NaN and the two infinities, as values outside the range of every finite
\* number of the model.
PosInf == Fix(10000000)

NegInf == -PosInf

NaN == PosInf + 1

IsFinite(v) == v \notin {NaN, PosInf, NegInf}

\* delta of moveTowards: NaN if a coordinate is NaN, else Infinity if one
\* is infinite.
PointerDeltaAny(screen, x, y) ==
    IF x = NaN \/ y = NaN THEN NaN
    ELSE IF IsFinite(x) /\ IsFinite(y) THEN PointerDelta(screen, x, y)
    ELSE PosInf

\* One coordinate of the position after the step.  A NaN coordinate stays
\* NaN through += and through Math.min / Math.max.  With an infinite
\* delta, dx / delta is NaN for an infinite dx and 0 for a finite one.
StepAny(c, moved, ptr, hi) ==
    IF c = NaN \/ ~IsFinite(ptr) THEN NaN
    ELSE IF IsFinite(moved) THEN moved
    ELSE Clamp(c, hi)

\* moveTowards for any pointer.  NaN > 3 is false, so a NaN delta skips
\* the step; Infinity > 3 is true, normalizedDistance is min(Infinity, 1)
\* = 1 and the velocity is finite.
MoveTowardsAny(p, r, bounds, screen, x, y) ==
    IF x = NaN \/ y = NaN THEN p
    ELSE IF IsFinite(x) /\ IsFinite(y)
    THEN IF PointerDelta(screen, x, y) > DEAD_ZONE
         THEN LET q == MoveTowards([x |-> IF p.x = NaN THEN 0 ELSE p.x,
                                    y |-> IF p.y = NaN THEN 0 ELSE p.y],
                                   r, bounds, screen, x, y)
              IN [x |-> StepAny(p.x, q.x, x, bounds.width),
                  y |-> StepAny(p.y, q.y, y, bounds.height)]
         ELSE p
    ELSE [x |-> StepAny(p.x, PosInf, x, bounds.width),
          y |-> StepAny(p.y, PosInf, y, bounds.height)]

\* Pointers with a NaN or an infinite coordinate.
OddPointers(screen) ==
    {[x |-> NaN, y |-> screen.height \div 2],
     [x |-> screen.width \div 2, y |-> NaN],
     [x |-> NaN, y |-> PosInf],
     [x |-> PosInf, y |-> screen.height \div 2],
     [x |-> screen.width \div 2, y |-> NegInf]}

CallMoveTowardsAny ==
    /\ steps < MaxOps
    /\ \E screen \in Screens : \E ptr \in Pointers(screen) \cup OddPointers(screen) :
         /\ pos' = MoveTowardsAny(pos, radius, WORLD_SIZE, screen, ptr.x, ptr.y)
         /\ last' = [NoLast EXCEPT !.op = "moveTowards", !.r1 = radius, !.p0 = pos,
                                   !.delta = PointerDeltaAny(screen, ptr.x, ptr.y),
                                   !.ptr = ptr]
    /\ steps' = steps + 1
    /\ UNCHANGED <<radius, foods, players, bots>>
    /\ UNCHANGED Frame

\* eatFood on a player whose position may hold NaN (NaN <= r * r is false).
CallEatFoodAny ==
    /\ steps < MaxOps
    /\ \E i \in 1..Len(foods) :
         LET e == EatFood(radius, foods[i])
         IN /\ radius' = e.radius
            /\ foods' = [foods EXCEPT ![i] = Consumed(e.target)]
            /\ last' = [NoLast EXCEPT !.op = "eatFood", !.r1 = radius, !.p0 = pos,
                                      !.r2 = FOOD_RADIUS,
                                      !.wasDestroyed = foods[i].destroyed,
                                      !.isDestroyed = e.target.destroyed,
                                      !.inside = /\ IsFinite(pos.x)
                                                 /\ IsFinite(pos.y)
                                                 /\ Inside(pos, radius, foods[i].pos)]
    /\ steps' = steps + 1
    /\ UNCHANGED <<pos, players, bots>>
    /\ UNCHANGED Frame

\* The player is built inside the world.
InitPointer == InitPlayer /\ InBounds(pos, WORLD_SIZE)

NextPointer == CallMoveTowardsAny \/ CallEatFoodAny

SpecPointer == InitPointer /\ [][NextPointer]_vars

\* C12 (as stated): a moveTowards call with a NaN or an infinite pointer
\* coordinate leaves the position unchanged, and both coordinates are still
\* finite numbers inside the world bounds.
C12_NonFinitePointerSkipped ==
    (last.op = "moveTowards" /\ ~(IsFinite(last.ptr.x) /\ IsFinite(last.ptr.y))) =>
        /\ pos = last.p0
        /\ IsFinite(pos.x) /\ IsFinite(pos.y)
        /\ InBounds(last.p0, WORLD_SIZE) => InBounds(pos, WORLD_SIZE)

\* The NaN half of C12, which the code satisfies.
C12_NaNPointerSkipped ==
    (last.op = "moveTowards" /\ (last.ptr.x = NaN \/ last.ptr.y = NaN)) =>
        pos = last.p0

\* ------------------------------------------------------------------------
\* The messages of one kind among those a tick has emitted.
OfType(out, type) == {j \in 1..Len(out) : out[j].type = type}

\* The entities of es that were live and are destroyed in es2.
NewlyDestroyed(es, es2) ==
    {i \in 1..Len(es) : ~es[i].destroyed /\ es2[i].destroyed}

\* C13: in every tick, when the socket is connected the player first moves
\* towards the pointer and then exactly one movement message is emitted,
\* the first of the tick, carrying the position after the move (the old
\* position in the dead-zone); when it is not connected no movement message
\* is emitted and the position is unchanged.
C13_MovementGated ==
    last.op = "tick" =>
        IF last.conn
        THEN /\ OfType(sent, "movement") = {1}
             /\ sent[1].x = pos.x /\ sent[1].y = pos.y
             /\ \E screen \in Screens :
                    pos = MoveTowards(last.p0, last.r1, WORLD_SIZE, screen,
                                      last.ptr.x, last.ptr.y)
             /\ last.delta <= DEAD_ZONE => pos = last.p0
        ELSE /\ OfType(sent, "movement") = {}
             /\ pos = last.p0

\* A connected tick with the pointer on the rim of the dead-zone: the
\* movement message carries the unchanged position.
C13_Witness ==
    /\ last.op = "tick" /\ last.conn /\ last.delta = DEAD_ZONE
    /\ Len(sent) >= 1 /\ sent[1].type = "movement"
    /\ sent[1].x = last.p0.x /\ sent[1].y = last.p0.y

\* C14: in every tick there is one eatFood message per food consumed in
\* that tick and none for any other food; each carries the floor of the
\* consumed food's coordinates and the floor of the radius the player has
\* once eatFood has grown it, the first of them the radius grown from the
\* radius at the start of the tick; the consumed food is destroyed.
C14_EatFoodIntent ==
    [][last'.op = "tick" /\ steps' = steps + 1 =>
         LET newly == NewlyDestroyed(foods, foods')
             ef == OfType(sent', "eatFood")
         IN /\ Cardinality(ef) = Cardinality(newly)
            /\ \A i \in 1..Len(foods) :
                   CanEatFood(pos', radius, foods[i]) => i \in newly
            /\ \A i \in newly :
                   /\ CanEatFood(pos', radius', foods[i])
                   /\ foods'[i].eaten = foods[i].eaten + 1
                   /\ foods'[i].intents = foods[i].intents + 1
                   /\ \E j \in ef : /\ sent'[j].x = Floor(foods[i].pos.x)
                                    /\ sent'[j].y = Floor(foods[i].pos.y)
            /\ \A i \in (1..Len(foods)) \ newly : foods'[i] = foods[i]
            /\ \A j \in ef :
                   /\ sent'[j].radius = Floor(sent'[j].after)
                   /\ sent'[j].after > radius
                   /\ sent'[j].after <= radius'
                   /\ \E i \in newly : /\ sent'[j].x = Floor(foods[i].pos.x)
                                       /\ sent'[j].y = Floor(foods[i].pos.y)
            /\ \A j \in ef :
                   (\A k \in ef : j <= k) =>
                       \E i \in newly :
                           sent'[j].after = EatFood(radius, foods[i]).radius]_vars

\* A tick in which a food was consumed and its intent sent.
C14_Witness ==
    /\ last.op = "tick"
    /\ \E i \in 1..Len(foods) : foods[i].destroyed /\ foods[i].intents = 1
    /\ \E j \in OfType(sent, "eatFood") : sent[j].radius = Floor(radius)

C16_PlayerIntentIffGrowth ==
    [][last'.op = "tick" /\ steps' = steps + 1 =>
         LET newly == NewlyDestroyed(players, players')
             named == {i \in newly : players[i].id # NoId}
             ep == OfType(sent', "eatPlayer")
         IN /\ \A i \in 1..Len(players) :
                   CanEatPlayer(pos', radius, players[i]) => i \in newly
            /\ \A i \in newly : CanEatPlayer(pos', radius', players[i])
            /\ \A i \in named :
                   /\ players'[i].eaten = players[i].eaten + 1
                   /\ players'[i].intents = players[i].intents + 1
                   /\ \E j \in ep : sent'[j].id = players[i].id
            /\ \A i \in newly \ named :
                   /\ players'[i].eaten = players[i].eaten
                   /\ players'[i].intents = players[i].intents
            /\ \A i \in 1..Len(players) :
                   (players'[i].eaten > players[i].eaten)
                       <=> (players'[i].intents > players[i].intents)
            /\ Cardinality(ep) = Cardinality(named)
            /\ \A j \in ep : sent'[j].id # NoId
            /\ (named = {} /\ NewlyDestroyed(foods, foods') = {}) =>
                   radius' = radius
            /\ named # {} => radius' > radius]_vars

\* A tick that destroyed a target without an id and did not grow.
C16_Witness ==
    /\ last.op = "tick" /\ last.killed = 1 /\ radius = last.r1
    /\ \E i \in 1..Len(players) :
           /\ players[i].destroyed /\ players[i].id = NoId
           /\ players[i].eaten = 0 /\ players[i].intents = 0

\* C17: the join is sent at most once; the step that sends it is a poll
\* that finds the socket connected, and it cancels the poll; once the poll
\* is cancelled it stays cancelled and no further join is sent; and if the
\* socket is eventually connected for good, the join is eventually sent.
C17_JoinOnce ==
    /\ [](joined <= 1)
    /\ [][joined' # joined =>
            /\ joined' = joined + 1
            /\ connected /\ connected'
            /\ checkConnection /\ ~checkConnection']_vars
    /\ [][~checkConnection => (~checkConnection' /\ joined' = joined)]_vars
    /\ [](~checkConnection => joined = 1)
    /\ (<>[]connected => <>(joined = 1))

\* The join was sent, the poll is cancelled, and the socket has closed since.
C17_Witness == joined = 1 /\ ~checkConnection /\ ~connected

\* C18 (as stated): while no join has been sent the game loop has emitted
\* no movement, eatFood or eatPlayer message.
C18_JoinBeforeIntents == joined = 0 => sent = <<>>

====
